---------------------------- MODULE Spec2Model ----------------------------
(***************************************************************************)
(* Model of the agile-companion generation pipeline:                       *)
(*   - src/backend/main.py  generate_documentation (FastAPI handler)       *)
(*   - src/backend/models.py the pydantic schema of a DocumentationPackage *)
(*   - src/app.py           the Streamlit button handler                   *)
(* Text is a sequence of one-character strings.  The JSON members of an     *)
(* object are abstracted by the single character "D"; the structured data   *)
(* they encode is the separate value payload.                               *)
(***************************************************************************)
EXTENDS Integers, Sequences, FiniteSets, TLC

(***************************************************************************)
(* Bounds of the model                                                      *)
(***************************************************************************)
\* number of padding characters beyond the excerpt length in a long response
PadOver == 3
\* length of the longest backlog drawn item by item
MaxItems == 2
\* number of identical empty backlog items in the bulk payload
BulkItems == 7

(***************************************************************************)
(* Python str helpers, as used by the handler                               *)
(***************************************************************************)
SetMin(S) == CHOOSE x \in S : \A y \in S : x <= y
SetMax(S) == CHOOSE x \in S : \A y \in S : x >= y

\* the characters str.strip() removes (the model's alphabet has these two)
IsSpace(c) == c \in {" ", "\n"}

\* str.strip(): drop leading and trailing whitespace
strip(s) ==
  LET keep == {i \in 1..Len(s) : ~IsSpace(s[i])}
  IN  IF keep = {} THEN <<>> ELSE SubSeq(s, SetMin(keep), SetMax(keep))

\* bool(s.strip()) for a str
Truthy(s) == Len(s) > 0

\* str.startswith(prefix)
startswith(s, prefix) ==
  /\ Len(s) >= Len(prefix)
  /\ SubSeq(s, 1, Len(prefix)) = prefix

\* str.split('\n'): always at least one element, empty strings kept
split(s) ==
  LET nl == {i \in 1..Len(s) : s[i] = "\n"}
      n == Cardinality(nl)
      pos(k) == IF k = 0 THEN 0
                ELSE IF k = n + 1 THEN Len(s) + 1
                ELSE CHOOSE i \in nl : Cardinality({j \in nl : j < i}) = k - 1
  IN  [k \in 1..(n + 1) |-> SubSeq(s, pos(k - 1) + 1, pos(k) - 1)]

\* '\n'.join(lines)
RECURSIVE join(_)
join(lines) ==
  IF Len(lines) = 0 THEN <<>>
  ELSE IF Len(lines) = 1 THEN lines[1]
  ELSE lines[1] \o <<"\n">> \o join(Tail(lines))

\* lines[1:-1]
slice_1_m1(lines) == SubSeq(lines, 2, Len(lines) - 1)

\* s[:n]
prefix_upto(s, n) == SubSeq(s, 1, IF Len(s) < n THEN Len(s) ELSE n)

\* the three-backtick literal the handler tests for; "#" stands for a backtick
FENCE == <<"#", "#", "#">>

\* response_text[:200]
ExcerptLen == 200

\* a faulty variant of strip_fence: only the opening fence line is removed (lines[1:])
strip_fence_keep_last(response_text) ==
  IF startswith(response_text, FENCE)
  THEN join(Tail(split(response_text)))
  ELSE response_text

\* lines 192-195: the markdown clean-up
strip_fence(response_text) ==
  IF startswith(response_text, FENCE)
  THEN join(slice_1_m1(split(response_text)))
  ELSE response_text

(***************************************************************************)
(* json.loads on the abstract alphabet: whitespace between tokens is        *)
(* ignored; "{D}" is an object with members, "{}" the empty object, "N" a   *)
(* JSON value that is not an object; anything else is a JSONDecodeError.    *)
(***************************************************************************)
NotSpace(c) == ~IsSpace(c)

json_kind(s) ==
  LET t == SelectSeq(s, NotSpace)
  IN  IF t = <<"{", "D", "}">> THEN "object"
      ELSE IF t = <<"{", "}">> THEN "empty_object"
      ELSE IF t = <<"N">> THEN "non_object"
      ELSE "error"


(***************************************************************************)
(* The schema of src/backend/models.py.  A JSON object is a function from   *)
(* its keys; a missing key is outside its DOMAIN.  validate_X returns the    *)
(* errors pydantic collects for an X, in field order; an error is            *)
(* [loc |-> path, type |-> "missing" | "literal_error"].                     *)
(***************************************************************************)
TestTypes == {"Functional", "UI/UX", "Security", "Performance", "Regression"}
Priorities == {"Must Have", "Should Have", "Could Have", "Won't Have"}
Complexities == {"XS", "S", "M", "L", "XL", "Needs Discussion"}
ReadyStatuses == {"Ready for Sprint", "Needs Refinement"}
RiskCategories == {"Risk", "Assumption", "Dependency"}
Impacts == {"High", "Medium", "Low"}
Audiences == {"Internal Users", "External Customers", "Admins", "Developers"}
Severities == {"Low", "Medium", "High", "Critical"}
AlertCategories == {"Feature Creep", "Scope Expansion", "Timeline Pressure",
                    "Unclear Requirements", "Technical Debt", "Resource Constraint"}
OverallRisks == {"Low", "Medium", "High", "Critical"}

\* a field declared without a default: required
required(obj, loc, f) ==
  IF f \in DOMAIN obj THEN <<>>
  ELSE <<[loc |-> Append(loc, f), type |-> "missing"]>>

\* a faulty variant of literal: the field is required but its value is not checked (a plain str)
literal_any(obj, loc, f, allowed) ==
  IF f \in DOMAIN obj THEN <<>>
  ELSE <<[loc |-> Append(loc, f), type |-> "missing"]>>

\* a required field of type Literal[...]: present and one of the literals
literal(obj, loc, f, allowed) ==
  IF f \notin DOMAIN obj THEN <<[loc |-> Append(loc, f), type |-> "missing"]>>
  ELSE IF obj[f] \in allowed THEN <<>>
  ELSE <<[loc |-> Append(loc, f), type |-> "literal_error"]>>

\* the validator of the model class named cls (defined below, after the classes)
RECURSIVE validate_model(_, _, _)

\* a required field of type List[cls]: every element validated as a cls
list_of(cls, obj, loc, f) ==
  IF f \notin DOMAIN obj THEN <<[loc |-> Append(loc, f), type |-> "missing"]>>
  ELSE LET items == obj[f]
           acc[k \in 0..Len(items)] ==
             IF k = 0 THEN <<>>
             ELSE acc[k - 1] \o validate_model(cls, items[k], loc \o <<f, ToString(k - 1)>>)
       IN  acc[Len(items)]

\* a required field that is itself a model
nested(cls, obj, loc, f) ==
  IF f \notin DOMAIN obj THEN <<[loc |-> Append(loc, f), type |-> "missing"]>>
  ELSE validate_model(cls, obj[f], Append(loc, f))

validate_AcceptanceCriteria(obj, loc) ==
  required(obj, loc, "condition") \o literal(obj, loc, "test_type", TestTypes)

validate_BacklogItem(obj, loc) ==
  required(obj, loc, "id") \o required(obj, loc, "title")
    \o required(obj, loc, "user_story")
    \o literal(obj, loc, "priority", Priorities)
    \o literal(obj, loc, "complexity", Complexities)
    \o literal(obj, loc, "definition_of_ready_status", ReadyStatuses)
    \o required(obj, loc, "missing_info")
    \o list_of("AcceptanceCriteria", obj, loc, "acceptance_criteria")

validate_DecisionNote(obj, loc) ==
  required(obj, loc, "topic") \o required(obj, loc, "decision_made")
    \o required(obj, loc, "rationale") \o required(obj, loc, "owner")

validate_RiskAssumption(obj, loc) ==
  literal(obj, loc, "category", RiskCategories)
    \o required(obj, loc, "description")
    \o literal(obj, loc, "impact", Impacts)
    \o required(obj, loc, "mitigation_strategy")

validate_ReleaseNoteEntry(obj, loc) ==
  required(obj, loc, "feature_name") \o required(obj, loc, "value_statement")
    \o literal(obj, loc, "audience", Audiences)

validate_ScopeAlert(obj, loc) ==
  literal(obj, loc, "severity", Severities)
    \o literal(obj, loc, "category", AlertCategories)
    \o required(obj, loc, "description") \o required(obj, loc, "quote")
    \o required(obj, loc, "recommendation")
    \o required(obj, loc, "impacted_items")

validate_ScopeSentinel(obj, loc) ==
  literal(obj, loc, "overall_risk", OverallRisks)
    \o required(obj, loc, "summary")
    \o list_of("ScopeAlert", obj, loc, "alerts")
    \o required(obj, loc, "metrics")

validate_model(cls, obj, loc) ==
  CASE cls = "AcceptanceCriteria" -> validate_AcceptanceCriteria(obj, loc)
    [] cls = "BacklogItem" -> validate_BacklogItem(obj, loc)
    [] cls = "DecisionNote" -> validate_DecisionNote(obj, loc)
    [] cls = "RiskAssumption" -> validate_RiskAssumption(obj, loc)
    [] cls = "ReleaseNoteEntry" -> validate_ReleaseNoteEntry(obj, loc)
    [] cls = "ScopeAlert" -> validate_ScopeAlert(obj, loc)
    [] cls = "ScopeSentinel" -> validate_ScopeSentinel(obj, loc)

\* the four list fields both schema versions share
validate_common(obj) ==
  required(obj, <<>>, "meeting_summary")
    \o list_of("BacklogItem", obj, <<>>, "backlog_items")
    \o list_of("DecisionNote", obj, <<>>, "decision_log")
    \o list_of("RiskAssumption", obj, <<>>, "risk_register")
    \o list_of("ReleaseNoteEntry", obj, <<>>, "release_notes_draft")

\* DocumentationPackage(**data) of src/backend/models.py
validate_DocumentationPackage(obj) ==
  validate_common(obj) \o nested("ScopeSentinel", obj, <<>>, "scope_sentinel")

\* DocumentationPackage(**data) of src/app.py: no scope_sentinel field
validate_DocumentationPackage_app(obj) == validate_common(obj)

(***************************************************************************)
(* The model instance pydantic builds from valid data: the declared fields  *)
(* with the values given; keys the class does not declare are ignored.      *)
(***************************************************************************)
keep(obj, fields) == [f \in fields |-> obj[f]]

\* the instance of the model class named cls (defined below, after the classes)
RECURSIVE build_model(_, _)

map_list(cls, items) == [k \in 1..Len(items) |-> build_model(cls, items[k])]

build_AcceptanceCriteria(obj) == keep(obj, {"condition", "test_type"})

build_BacklogItem(obj) ==
  [keep(obj, {"id", "title", "user_story", "priority", "complexity",
              "definition_of_ready_status", "missing_info", "acceptance_criteria"})
   EXCEPT !["acceptance_criteria"] =
            map_list("AcceptanceCriteria", obj["acceptance_criteria"])]

build_DecisionNote(obj) == keep(obj, {"topic", "decision_made", "rationale", "owner"})

build_RiskAssumption(obj) ==
  keep(obj, {"category", "description", "impact", "mitigation_strategy"})

build_ReleaseNoteEntry(obj) == keep(obj, {"feature_name", "value_statement", "audience"})

build_ScopeAlert(obj) ==
  keep(obj, {"severity", "category", "description", "quote", "recommendation",
             "impacted_items"})

build_ScopeSentinel(obj) ==
  [keep(obj, {"overall_risk", "summary", "alerts", "metrics"})
   EXCEPT !["alerts"] = map_list("ScopeAlert", obj["alerts"])]

build_model(cls, obj) ==
  CASE cls = "AcceptanceCriteria" -> build_AcceptanceCriteria(obj)
    [] cls = "BacklogItem" -> build_BacklogItem(obj)
    [] cls = "DecisionNote" -> build_DecisionNote(obj)
    [] cls = "RiskAssumption" -> build_RiskAssumption(obj)
    [] cls = "ReleaseNoteEntry" -> build_ReleaseNoteEntry(obj)
    [] cls = "ScopeAlert" -> build_ScopeAlert(obj)
    [] cls = "ScopeSentinel" -> build_ScopeSentinel(obj)

build_lists(obj, fields) ==
  [f \in fields |->
     IF f = "backlog_items" THEN map_list("BacklogItem", obj[f])
     ELSE IF f = "decision_log" THEN map_list("DecisionNote", obj[f])
     ELSE IF f = "risk_register" THEN map_list("RiskAssumption", obj[f])
     ELSE IF f = "release_notes_draft" THEN map_list("ReleaseNoteEntry", obj[f])
     ELSE IF f = "scope_sentinel" THEN build_model("ScopeSentinel", obj[f])
     ELSE obj[f]]

CommonFields == {"meeting_summary", "backlog_items", "decision_log", "risk_register",
                 "release_notes_draft"}

build_DocumentationPackage(obj) == build_lists(obj, CommonFields \cup {"scope_sentinel"})

build_DocumentationPackage_app(obj) == build_lists(obj, CommonFields)

\* str(e) of a pydantic ValidationError: a count line, then for every error its
\* location and its message (one token each is a lower bound on the characters)
RECURSIVE error_lines(_)
error_lines(errs) ==
  IF Len(errs) = 0 THEN <<>>
  ELSE errs[1].loc \o <<errs[1].type>> \o error_lines(Tail(errs))

str_ValidationError(errs) == <<ToString(Len(errs)), "validation errors">> \o error_lines(errs)


(***************************************************************************)
(* Inputs: the structured data a model response may encode.  Each is the    *)
(* example of the prompt (lines 105-167) with at most a few defects.        *)
(***************************************************************************)
without(obj, f) == [g \in DOMAIN obj \ {f} |-> obj[g]]
with(obj, f, v) == [g \in DOMAIN obj \cup {f} |-> IF g = f THEN v ELSE obj[g]]
EmptyObject == [g \in {} |-> ""]

AC_ok == [condition |-> "Specific testable condition", test_type |-> "Functional"]

Item_ok ==
  [id |-> "PBI-001", title |-> "Short descriptive title",
   user_story |-> "As a user, I want a goal, so that benefit",
   priority |-> "Must Have", complexity |-> "M",
   definition_of_ready_status |-> "Ready for Sprint", missing_info |-> "",
   acceptance_criteria |-> <<AC_ok>>]

Item_needs ==
  [Item_ok EXCEPT !.definition_of_ready_status = "Needs Refinement",
                  !.missing_info = "where does the tag go?"]

ItemVariants ==
  { Item_ok, Item_needs,
    [Item_ok EXCEPT !.missing_info = "where does the tag go?"],
    [Item_needs EXCEPT !.missing_info = ""],
    [Item_ok EXCEPT !.priority = "Urgent"],
    [Item_ok EXCEPT !.complexity = "5"],
    [Item_needs EXCEPT !.definition_of_ready_status = "Blocked"],
    without(Item_ok, "missing_info"),
    without(Item_needs, "id"),
    [Item_ok EXCEPT !.acceptance_criteria = <<>>],
    [Item_ok EXCEPT !.acceptance_criteria = <<AC_ok, [AC_ok EXCEPT !.test_type = "Manual"]>>],
    [Item_needs EXCEPT !.acceptance_criteria = <<without(AC_ok, "condition")>>],
    with(Item_ok, "story_points", "5") }

ItemLists == UNION {[1..n -> ItemVariants] : n \in 0..MaxItems}

Decision_ok ==
  [topic |-> "Decision topic", decision_made |-> "What was decided",
   rationale |-> "Why", owner |-> "Person responsible"]

Risk_ok ==
  [category |-> "Risk", description |-> "What could go wrong", impact |-> "High",
   mitigation_strategy |-> "How to address it"]

Note_ok ==
  [feature_name |-> "Feature name", value_statement |-> "Benefit to users",
   audience |-> "External Customers"]

Alert_ok ==
  [severity |-> "Medium", category |-> "Feature Creep",
   description |-> "What scope creep was detected", quote |-> "Exact quote",
   recommendation |-> "How to address this", impacted_items |-> <<"PBI-001">>]

Sentinel_ok ==
  [overall_risk |-> "Medium", summary |-> "Brief assessment",
   alerts |-> <<Alert_ok>>, metrics |-> [features_discussed |-> 5]]

Package_ok ==
  [meeting_summary |-> "Brief summary", backlog_items |-> <<Item_ok>>,
   decision_log |-> <<Decision_ok>>, risk_register |-> <<Risk_ok>>,
   release_notes_draft |-> <<Note_ok>>, scope_sentinel |-> Sentinel_ok]

TopVariants ==
  { Package_ok,
    without(Package_ok, "scope_sentinel"),
    without(Package_ok, "meeting_summary"),
    without(Package_ok, "backlog_items"),
    with(Package_ok, "sprint_goal", "extra"),
    [Package_ok EXCEPT !.decision_log = <<>>, !.risk_register = <<>>,
                       !.release_notes_draft = <<>>],
    [Package_ok EXCEPT !.decision_log = <<without(Decision_ok, "owner")>>],
    [Package_ok EXCEPT !.risk_register = <<[Risk_ok EXCEPT !.impact = "Severe"]>>],
    [Package_ok EXCEPT !.risk_register = <<[Risk_ok EXCEPT !.category = "Issue"]>>],
    [Package_ok EXCEPT !.release_notes_draft = <<[Note_ok EXCEPT !.audience = "Everyone"]>>],
    [Package_ok EXCEPT !.scope_sentinel = [Sentinel_ok EXCEPT !.overall_risk = "Extreme"]],
    [Package_ok EXCEPT !.scope_sentinel = without(Sentinel_ok, "metrics")],
    [Package_ok EXCEPT !.scope_sentinel =
       [Sentinel_ok EXCEPT !.alerts = <<[Alert_ok EXCEPT !.category = "Gold Plating"]>>]],
    [Package_ok EXCEPT !.scope_sentinel =
       [Sentinel_ok EXCEPT !.alerts = <<without(Alert_ok, "quote")>>]] }

\* a backlog of BulkItems empty objects: every required field of every item missing
Package_bulk == [Package_ok EXCEPT !.backlog_items = [k \in 1..BulkItems |-> EmptyObject]]

Payloads ==
  {[Package_ok EXCEPT !.backlog_items = items] : items \in ItemLists}
    \cup TopVariants \cup {Package_bulk}

(***************************************************************************)
(* Inputs: the text of a model response (response.text).                    *)
(***************************************************************************)
Pad(n) == [i \in 1..n |-> "x"]

Bodies ==
  { <<"{", "D", "}">>, <<"{", "\n", "D", "\n", "}">>, <<"{", "}">>, <<"N">>,
    <<"{", "\n", "D">>, <<"{", "D", "}", "\n", "}">>, <<"x">>, <<>> }
    \cup {<<"{", "D">> \o Pad(n) : n \in (ExcerptLen - 4)..(ExcerptLen + PadOver)}

\* a body as is, inside a fence with or without a language tag, or with a
\* fence that is not closed, not opened, inline, or surrounded by prose
Wrappings(b) ==
  { b,
    FENCE \o <<"\n">> \o b \o <<"\n">> \o FENCE,
    FENCE \o <<"j", "\n">> \o b \o <<"\n">> \o FENCE,
    FENCE \o <<"j", "\n">> \o b,
    b \o <<"\n">> \o FENCE,
    FENCE \o b \o FENCE,
    <<"x", "\n">> \o FENCE \o <<"\n">> \o b \o <<"\n">> \o FENCE,
    FENCE \o <<"\n">> \o b \o <<"\n">> \o FENCE \o <<"\n", "x">> }

ResponseTexts ==
  UNION {{w, <<" ", "\n">> \o w \o <<"\n", " ">>} : w \in UNION {Wrappings(b) : b \in Bodies}}

\* request.transcript / the text area
Transcripts == {<<>>, <<" ">>, <<"\n", " ">>, <<"a">>, <<" ", "a", "\n">>}

\* TranscriptRequest.model_choice (models.py line 81)
ModelChoices == {"gemini-2.5-pro", "gemini-2.5-flash", "gemini-2.0-flash"}

\* the selectbox of app.py line 13
ModelChoices_app == {"gemini-1.5-pro", "gemini-2.5-flash"}

\* os.getenv("GEMINI_API_KEY") / the sidebar text input: unset, empty or set
KeyValues == {"None", "", "AIza"}

\* truthiness of a key value
key_set(k) == k \notin {"None", ""}


(***************************************************************************)
(* State                                                                    *)
(***************************************************************************)
VARIABLES
  deployment,       \* which program runs: "backend" (main.py) or "streamlit" (app.py)
  GEMINI_API_KEY,   \* main.py line 31, read once at start-up
  api_key,          \* app.py line 12, the sidebar input of the current run
  pc,               \* position of the handler in the current request
  transcript,       \* request.transcript / the text area
  model_choice,     \* request.model_choice / the selectbox
  raw,              \* response.text as the provider returned it
  response_text,    \* the local of lines 189-198
  data_kind,        \* what json.loads returned: "none", "object", "non_object"
  data,             \* the mapping json.loads returned, when it is one
  documentation,    \* the validated package, when one was built
  outcome,          \* what the caller sees when the request ends
  upstream_calls,   \* generate_content calls made for the current request
  steps,            \* the steps the current request has taken, in order
  now,              \* the clock the rate limiter reads, in seconds
  requests,         \* rate limiter: per client key, the recorded admission times
  client,           \* the client key of the current request
  admission,        \* the admission check of the current request: none, allowed, denied
  attempt,          \* the last admit call: the store it found, its time, its answer
  arrivals          \* requests that have arrived at the rate-limited deployment

limiter == <<now, requests, client, admission, attempt, arrivals>>

vars == <<deployment, GEMINI_API_KEY, api_key, pc, transcript, model_choice, raw,
          response_text, data_kind, data, documentation, outcome, upstream_calls, steps,
          limiter>>

NoOutcome == [kind |-> "none", channel |-> "none", status_code |-> 0,
              detail |-> "", excerpt |-> <<>>, returned |-> FALSE]

\* raise HTTPException(status_code=..., detail=...); excerpt is the interpolated
\* part of detail, empty for a fixed message
HTTPException(kind, status_code, detail, excerpt) ==
  [kind |-> kind, channel |-> "HTTPException", status_code |-> status_code,
   detail |-> detail, excerpt |-> excerpt, returned |-> FALSE]

\* return documentation (FastAPI answers 200 with the response_model)
Returned ==
  [kind |-> "ok", channel |-> "return", status_code |-> 200,
   detail |-> "", excerpt |-> <<>>, returned |-> TRUE]

\* st.error / st.warning / st.success of app.py
Shown(kind, channel, detail, excerpt) ==
  [kind |-> kind, channel |-> channel, status_code |-> 0,
   detail |-> detail, excerpt |-> excerpt, returned |-> (kind = "ok")]

\* the status code each raise site of main.py uses
status_no_key == 500
status_empty == 400
status_json_error == 500
status_exception == 500

fresh_request ==
  /\ raw' = <<>>
  /\ response_text' = <<>>
  /\ data_kind' = "none"
  /\ data' = EmptyObject
  /\ documentation' = EmptyObject
  /\ outcome' = NoOutcome
  /\ upstream_calls' = 0

\* the client keys (network addresses) of the model
Clients == {"10.0.0.1", "10.0.0.2"}

NoAttempt == [store |-> <<>>, now |-> 0, allowed |-> FALSE, made |-> FALSE]

InitOf(deployments) ==
  /\ deployment \in deployments
  /\ now = 0
  /\ requests = [c \in Clients |-> <<>>]
  /\ client = "none"
  /\ admission = "none"
  /\ attempt = NoAttempt
  /\ arrivals = 0
  /\ GEMINI_API_KEY \in (IF deployment = "backend" THEN KeyValues
                         ELSE IF deployment = "demo" THEN {"AIza"} ELSE {"None"})
  /\ api_key = ""
  /\ pc = "idle"
  /\ transcript = <<>>
  /\ model_choice = "none"
  /\ raw = <<>>
  /\ response_text = <<>>
  /\ data_kind = "none"
  /\ data = EmptyObject
  /\ documentation = EmptyObject
  /\ outcome = NoOutcome
  /\ upstream_calls = 0
  /\ steps = <<>>

Init == InitOf({"backend", "streamlit"})

(***************************************************************************)
(* src/backend/main.py: generate_documentation                              *)
(***************************************************************************)
\* POST /api/generate with a body FastAPI accepted as a TranscriptRequest
Request ==
  /\ deployment = "backend"
  /\ pc \in {"idle", "done"}
  /\ \E t \in Transcripts, m \in ModelChoices :
       /\ transcript' = t
       /\ model_choice' = m
  /\ fresh_request
  /\ steps' = <<>>
  /\ pc' = "check_key"
  /\ UNCHANGED <<limiter, deployment, GEMINI_API_KEY, api_key>>

\* a faulty variant of no_key: only an unset variable counts as missing ("is None")
no_key_unset_only(key) == key = "None"

\* lines 65-69
no_key(key) == ~key_set(key)

CheckKey ==
  /\ pc = "check_key"
  /\ steps' = Append(steps, "credential")
  /\ IF no_key(GEMINI_API_KEY)
     THEN /\ outcome' = HTTPException("ConfigurationError", status_no_key,
                                      "GEMINI_API_KEY not configured", <<>>)
          /\ pc' = "done"
     ELSE /\ pc' = "check_transcript"
          /\ UNCHANGED outcome
  /\ UNCHANGED <<limiter, deployment, GEMINI_API_KEY, api_key, transcript, model_choice, raw,
                 response_text, data_kind, data, documentation, upstream_calls>>

\* a faulty variant of empty_transcript: the transcript is never found empty
empty_transcript_never(t) == FALSE

\* lines 71-75
empty_transcript(t) == ~Truthy(strip(t))

CheckTranscript ==
  /\ pc = "check_transcript"
  /\ steps' = Append(steps, "transcript")
  /\ IF empty_transcript(transcript)
     THEN /\ outcome' = HTTPException("EmptyInputError", status_empty,
                                      "Transcript cannot be empty", <<>>)
          /\ pc' = "done"
     ELSE /\ pc' = "call"
          /\ UNCHANGED outcome
  /\ UNCHANGED <<limiter, deployment, GEMINI_API_KEY, api_key, transcript, model_choice, raw,
                 response_text, data_kind, data, documentation, upstream_calls>>

\* a faulty variant of after_error: the except clause tries the call again
after_error_retry == "call"

\* where an exception raised inside the try block of lines 77-203 goes:
\* the except clauses of lines 205-214 end the request
after_error == "done"

\* lines 78-189: the single generate_content call; the provider either raises
\* (transport or provider failure, or response.text without a candidate) or
\* returns text, which line 189 strips
CallUpstream ==
  /\ pc = "call"
  /\ steps' = Append(steps, "upstream")
  /\ upstream_calls' = upstream_calls + 1
  /\ \/ /\ outcome' = HTTPException("UpstreamError", status_exception,
                                    "Error generating documentation: ",
                                    <<"provider message">>)
        /\ pc' = after_error
        /\ UNCHANGED <<raw, response_text>>
     \/ \E text \in ResponseTexts :
          /\ raw' = text
          /\ response_text' = strip(text)
          /\ pc' = "fence"
          /\ UNCHANGED outcome
  /\ UNCHANGED <<limiter, deployment, GEMINI_API_KEY, api_key, transcript, model_choice,
                 data_kind, data, documentation>>

\* lines 191-195
CleanFence ==
  /\ pc = "fence"
  /\ steps' = Append(steps, "fence")
  /\ response_text' = strip_fence(response_text)
  /\ pc' = "parse"
  /\ UNCHANGED <<limiter, deployment, GEMINI_API_KEY, api_key, transcript, model_choice, raw,
                 data_kind, data, documentation, outcome, upstream_calls>>

\* a faulty variant of json_error_excerpt: the whole text is interpolated
json_error_excerpt_whole(text) == text

\* the detail of lines 206-209
json_error_excerpt(text) == prefix_upto(text, ExcerptLen)

\* line 198 and the except clause of lines 205-209; the members "D" stands
\* for decode to some payload
ParseJson ==
  /\ pc = "parse"
  /\ steps' = Append(steps, "parse")
  /\ LET kind == json_kind(response_text) IN
       \/ /\ kind = "error"
          /\ outcome' = HTTPException("ParseError", status_json_error,
                                      "Failed to parse Gemini response as JSON. Response: ",
                                      json_error_excerpt(response_text))
          /\ pc' = after_error
          /\ UNCHANGED <<data_kind, data>>
       \/ /\ kind = "object"
          /\ \E p \in Payloads : data' = p
          /\ data_kind' = "object"
          /\ pc' = "validate"
          /\ UNCHANGED outcome
       \/ /\ kind = "empty_object"
          /\ data' = EmptyObject
          /\ data_kind' = "object"
          /\ pc' = "validate"
          /\ UNCHANGED outcome
       \/ /\ kind = "non_object"
          /\ data_kind' = "non_object"
          /\ pc' = "validate"
          /\ UNCHANGED <<data, outcome>>
  /\ UNCHANGED <<limiter, deployment, GEMINI_API_KEY, api_key, transcript, model_choice, raw,
                 response_text, documentation, upstream_calls>>

\* the detail of lines 211-214 for an exception e raised by line 201: str(e),
\* whole (a TypeError when data is not a mapping)
exception_excerpt(kind, errs) ==
  IF kind = "non_object" THEN <<"argument after ** must be a mapping">>
  ELSE str_ValidationError(errs)

\* whether line 201 raises
rejects(kind, errs) == kind = "non_object" \/ Len(errs) > 0

\* lines 200-203 and the except clause of lines 210-214
Validate ==
  /\ pc = "validate"
  /\ steps' = Append(steps, "validate")
  /\ LET errs == IF data_kind = "object" THEN validate_DocumentationPackage(data) ELSE <<>> IN
       IF rejects(data_kind, errs)
       THEN /\ outcome' = HTTPException("MalformedResponseError", status_exception,
                                        "Error generating documentation: ",
                                        exception_excerpt(data_kind, errs))
            /\ pc' = after_error
            /\ UNCHANGED documentation
       ELSE /\ documentation' = build_DocumentationPackage(data)
            /\ outcome' = Returned
            /\ pc' = "done"
  /\ UNCHANGED <<limiter, deployment, GEMINI_API_KEY, api_key, transcript, model_choice, raw,
                 response_text, data_kind, data, upstream_calls>>


(***************************************************************************)
(* src/app.py: the "Generate Documentation Package" button                  *)
(***************************************************************************)
\* line 66: the button is pressed with the current widget values
Press ==
  /\ deployment = "streamlit"
  /\ pc \in {"idle", "done"}
  /\ \E k \in KeyValues \ {"None"}, t \in Transcripts, m \in ModelChoices_app :
       /\ api_key' = k
       /\ transcript' = t
       /\ model_choice' = m
  /\ fresh_request
  /\ steps' = <<>>
  /\ pc' = "st_check"
  /\ UNCHANGED <<limiter, deployment, GEMINI_API_KEY>>

\* line 69: "elif not transcript", the text area's value as typed
empty_transcript_app(t) == ~Truthy(t)

\* lines 67-71
CheckInputs ==
  /\ pc = "st_check"
  /\ IF no_key(api_key)
     THEN /\ outcome' = Shown("ConfigurationError", "st.error",
                              "Please enter your Gemini API Key in the sidebar.", <<>>)
          /\ steps' = Append(steps, "credential")
          /\ pc' = "done"
     ELSE IF empty_transcript_app(transcript)
     THEN /\ outcome' = Shown("EmptyInputError", "st.warning",
                              "Please enter a transcript to analyze.", <<>>)
          /\ steps' = steps \o <<"credential", "transcript">>
          /\ pc' = "done"
     ELSE /\ pc' = "st_call"
          /\ steps' = steps \o <<"credential", "transcript">>
          /\ UNCHANGED outcome
  /\ UNCHANGED <<limiter, deployment, GEMINI_API_KEY, api_key, transcript, model_choice, raw,
                 response_text, data_kind, data, documentation, upstream_calls>>

\* lines 73-95: the generate_content call; any exception goes to line 169
CallUpstream_app ==
  /\ pc = "st_call"
  /\ steps' = Append(steps, "upstream")
  /\ upstream_calls' = upstream_calls + 1
  /\ \/ /\ outcome' = Shown("UpstreamError", "st.error", "Error parsing response: ",
                            <<"provider message">>)
        /\ pc' = "done"
        /\ UNCHANGED <<raw, response_text>>
     \/ \E text \in ResponseTexts :
          /\ raw' = text
          /\ response_text' = text
          /\ pc' = "st_parse"
          /\ UNCHANGED outcome
  /\ UNCHANGED <<limiter, deployment, GEMINI_API_KEY, api_key, transcript, model_choice,
                 data_kind, data, documentation>>

\* line 96: json.loads(response.text), the text as returned
ParseJson_app ==
  /\ pc = "st_parse"
  /\ steps' = Append(steps, "parse")
  /\ LET kind == json_kind(response_text) IN
       \/ /\ kind = "error"
          /\ outcome' = Shown("ParseError", "st.error", "Error parsing response: ",
                              <<"Expecting value">>)
          /\ pc' = "done"
          /\ UNCHANGED <<data_kind, data>>
       \/ /\ kind = "object"
          /\ \E p \in Payloads : data' = p
          /\ data_kind' = "object"
          /\ pc' = "st_validate"
          /\ UNCHANGED outcome
       \/ /\ kind = "empty_object"
          /\ data' = EmptyObject
          /\ data_kind' = "object"
          /\ pc' = "st_validate"
          /\ UNCHANGED outcome
       \/ /\ kind = "non_object"
          /\ data_kind' = "non_object"
          /\ pc' = "st_validate"
          /\ UNCHANGED <<data, outcome>>
  /\ UNCHANGED <<limiter, deployment, GEMINI_API_KEY, api_key, transcript, model_choice, raw,
                 response_text, documentation, upstream_calls>>

\* lines 97-99 and the except clause of lines 169-170
Validate_app ==
  /\ pc = "st_validate"
  /\ steps' = Append(steps, "validate")
  /\ LET errs == IF data_kind = "object" THEN validate_DocumentationPackage_app(data)
                 ELSE <<>> IN
       IF rejects(data_kind, errs)
       THEN /\ outcome' = Shown("MalformedResponseError", "st.error",
                                "Error parsing response: ",
                                exception_excerpt(data_kind, errs))
            /\ UNCHANGED documentation
       ELSE /\ documentation' = build_DocumentationPackage_app(data)
            /\ outcome' = Shown("ok", "st.success",
                                "Documentation Generated Successfully!", <<>>)
  /\ pc' = "done"
  /\ UNCHANGED <<limiter, deployment, GEMINI_API_KEY, api_key, transcript, model_choice, raw,
                 response_text, data_kind, data, upstream_calls>>

(***************************************************************************)
(* The rate-limited deployment of spec sections 2 and 4.2: its source is    *)
(* not among the files modelled above, so the limiter and the handler's     *)
(* admission step follow the specification's contract.                      *)
(***************************************************************************)
\* the default policy of section 4.2
limit == 5
window_seconds == 3600

\* bound: requests that arrive at the rate-limited deployment
MaxArrivals == 7

\* seconds that pass between two arrivals: a moment, and the two waits that
\* put a sixth attempt one second before and exactly at the oldest
\* admission's expiry
Deltas == {1, window_seconds - limit, window_seconds - limit + 1}

\* a faulty variant of expired: a timestamp exactly one window old still counts
expired_strict(ts, t) == t - ts > window_seconds

\* a timestamp no longer counts once a full window has passed since it
expired(ts, t) == t - ts >= window_seconds

\* "drop all timestamps older than now - windowSeconds"
prune(store, t) == SelectSeq(store, LAMBDA ts : ~expired(ts, t))

\* admit(clientKey, now): the store afterwards and the answer
admit(store, t) ==
  LET kept == prune(store, t)
  IN  IF Len(kept) >= limit
      THEN [store |-> kept, allowed |-> FALSE]
      ELSE [store |-> Append(kept, t), allowed |-> TRUE]

\* a request arrives from a client, some time after the previous one
Arrive ==
  /\ deployment = "demo"
  /\ pc \in {"idle", "done"}
  /\ arrivals < MaxArrivals
  /\ \E c \in Clients, d \in Deltas :
       /\ client' = c
       /\ now' = now + d
  /\ arrivals' = arrivals + 1
  /\ admission' = "none"
  /\ transcript' = <<"a">>
  /\ model_choice' = "gemini-2.5-flash"
  /\ fresh_request
  /\ steps' = <<>>
  /\ pc' = "admit"
  /\ UNCHANGED <<deployment, GEMINI_API_KEY, api_key, requests, attempt>>

\* the admission check: RateLimitExceeded ends the request, otherwise the
\* request goes on to the Generation Orchestrator
Admit ==
  /\ pc = "admit"
  /\ LET r == admit(requests[client], now) IN
       /\ requests' = [requests EXCEPT ![client] = r.store]
       /\ attempt' = [store |-> requests[client], now |-> now,
                      allowed |-> r.allowed, made |-> TRUE]
       /\ IF r.allowed
          THEN /\ admission' = "allowed"
               /\ pc' = "generate"
               /\ UNCHANGED outcome
          ELSE /\ admission' = "denied"
               /\ pc' = "done"
               /\ outcome' = [NoOutcome EXCEPT !.kind = "RateLimitExceeded",
                                               !.channel = "error"]
  /\ steps' = Append(steps, "admission")
  /\ UNCHANGED <<deployment, GEMINI_API_KEY, api_key, transcript, model_choice, raw,
                 response_text, data_kind, data, documentation, upstream_calls,
                 now, client, arrivals>>

\* the Generation Orchestrator of section 4.5, taken as one step: a single
\* upstream call, then a package or a typed failure
Generate ==
  /\ pc = "generate"
  /\ upstream_calls' = upstream_calls + 1
  /\ \E k \in {"ok", "UpstreamError", "MalformedResponseError"} :
       outcome' = [NoOutcome EXCEPT !.kind = k, !.channel = "result",
                                    !.returned = (k = "ok")]
  /\ steps' = Append(steps, "upstream")
  /\ pc' = "done"
  /\ UNCHANGED <<limiter, deployment, GEMINI_API_KEY, api_key, transcript, model_choice,
                 raw, response_text, data_kind, data, documentation>>

(***************************************************************************)
(* Specification                                                            *)
(***************************************************************************)
Next ==
  \/ Request
  \/ CheckKey
  \/ CheckTranscript
  \/ CallUpstream
  \/ CleanFence
  \/ ParseJson
  \/ Validate
  \/ Press
  \/ CheckInputs
  \/ CallUpstream_app
  \/ ParseJson_app
  \/ Validate_app

Spec == Init /\ [][Next]_vars

\* the same programs beside the rate-limited deployment
InitLimiter == InitOf({"backend", "streamlit", "demo"})

NextLimiter ==
  \/ Next
  \/ Arrive
  \/ Admit
  \/ Generate

LimiterSpec == InitLimiter /\ [][NextLimiter]_vars


(***************************************************************************)
(* Claims                                                                   *)
(***************************************************************************)
Range(seq) == {seq[i] : i \in 1..Len(seq)}
Blank(t) == \A i \in 1..Len(t) : t[i] \in {" ", "\n"}
InRequest == pc # "idle"
Ended == pc = "done"

\* C1: a request whose transcript is empty or only whitespace ends in
\* EmptyInputError and makes no upstream call, whatever the credential is,
\* in the backend handler and in the Streamlit handler alike.
C1_BlankTranscriptIsEmptyInputError ==
  (InRequest /\ deployment \in {"backend", "streamlit"} /\ Blank(transcript)) =>
    /\ upstream_calls = 0
    /\ Ended => outcome.kind = "EmptyInputError"

\* C1, the part the backend handler keeps: a blank transcript never reaches
\* the provider
C1_BackendBlankNeverCalls ==
  (deployment = "backend" /\ InRequest /\ Blank(transcript)) => upstream_calls = 0

\* C1, the Streamlit handler alone: a blank transcript never reaches the provider
C1_StreamlitBlankNeverCalls ==
  (deployment = "streamlit" /\ InRequest /\ Blank(transcript)) => upstream_calls = 0


(***************************************************************************)
(* C2: the rate limiter                                                     *)
(***************************************************************************)
\* the request has reached generation: the orchestrator runs or has run
ReachedGeneration ==
  /\ deployment \in {"backend", "demo"}
  /\ pc \in {"call", "generate"} \/ upstream_calls > 0

\* the last admit call found a full store: limit admissions t0..t4, all
\* inside one window, none later than the attempt
FullStore ==
  /\ attempt.made
  /\ Len(attempt.store) = limit
  /\ attempt.store[limit] - attempt.store[1] < window_seconds
  /\ attempt.store[limit] <= attempt.now

\* what the limiter does with a further attempt on a full store: denied and
\* not recorded before the oldest admission is a window old, admitted and
\* recorded from then on
SixthAttempt ==
  (Ended \/ pc = "generate") /\ FullStore =>
    LET t0 == attempt.store[1] IN
      /\ attempt.now < t0 + window_seconds =>
           /\ ~attempt.allowed
           /\ admission = "denied"
           /\ requests[client] = attempt.store
      /\ attempt.now >= t0 + window_seconds =>
           /\ attempt.allowed
           /\ admission = "allowed"
           /\ requests[client][Len(requests[client])] = attempt.now

ErrorKinds == {"EmptyInputError", "ConfigurationError", "UpstreamError", "ParseError",
               "MalformedResponseError"}

\* the status code generate_documentation answers with for each error kind
status_of(kind) ==
  CASE kind = "ConfigurationError" -> status_no_key
    [] kind = "EmptyInputError" -> status_empty
    [] kind = "ParseError" -> status_json_error
    [] kind \in {"UpstreamError", "MalformedResponseError"} -> status_exception

\* C3: each error kind has its own caller-visible status: the status a
\* request ends with is not the status of any other error kind.
C3_DistinctStatusPerKind ==
  (deployment = "backend" /\ Ended /\ outcome.kind \in ErrorKinds) =>
    /\ outcome.status_code = status_of(outcome.kind)
    /\ \A k \in ErrorKinds \ {outcome.kind} : status_of(k) # outcome.status_code

\* C3, what the handler does keep apart: an empty transcript is the only
\* error answered with a status of its own
C3_OnlyEmptyInputIsDistinct ==
  (deployment = "backend" /\ Ended /\ outcome.kind \in ErrorKinds) =>
    (outcome.status_code = status_empty <=> outcome.kind = "EmptyInputError")


(***************************************************************************)
(* C4: fence handling                                                       *)
(***************************************************************************)
Newlines(t) == {i \in 1..Len(t) : t[i] = "\n"}
FirstLine(t) == IF Newlines(t) = {} THEN t ELSE SubSeq(t, 1, SetMin(Newlines(t)) - 1)
LastLine(t) == IF Newlines(t) = {} THEN t ELSE SubSeq(t, SetMax(Newlines(t)) + 1, Len(t))

\* everything after the first line and before the last one
Between(t) ==
  IF Newlines(t) = {} THEN <<>>
  ELSE SubSeq(t, SetMin(Newlines(t)) + 1, SetMax(Newlines(t)) - 1)

\* a line that opens a fence: three backticks, then a language tag or nothing
OpensFence(line) ==
  /\ Len(line) >= 3
  /\ \A i \in 1..3 : line[i] = "#"
  /\ \A i \in 4..Len(line) : line[i] \notin {"#", " ", "{", "}", "D"}

\* a line that closes a fence: three backticks
ClosesFence(line) == line = <<"#", "#", "#">>

Wrapped(t) == OpensFence(FirstLine(t)) /\ ClosesFence(LastLine(t))

\* no three backticks anywhere in the text
NoFence(t) == \A i \in 1..(Len(t) - 2) : ~(t[i] = "#" /\ t[i + 1] = "#" /\ t[i + 2] = "#")

\* the handler has normalised the response of the current request
Normalised == deployment = "backend" /\ "fence" \in Range(steps)

\* C4: after trimming, a response wrapped in a fenced block (any or no
\* language tag) reaches the parser as exactly the lines between the two
\* fence lines, and a response without a fence reaches it as the trimmed
\* text, unchanged.
C4_FenceStripped ==
  Normalised =>
    LET t == strip(raw) IN
      /\ Wrapped(t) => response_text = Between(t)
      /\ NoFence(t) => response_text = t

\* C4 witness: a fenced response with a language tag and three payload lines
\* has been normalised to those three lines
C4_Witness ==
  /\ Normalised
  /\ pc = "parse"
  /\ Wrapped(strip(raw))
  /\ Len(strip(raw)) > 4
  /\ strip(raw)[4] = "j"
  /\ raw # strip(raw)
  /\ response_text = <<"{", "\n", "D", "\n", "}">>

(***************************************************************************)
(* C5, C6: error payloads                                                   *)
(***************************************************************************)
\* C5: when the normalised response is not parseable as JSON the request ends
\* in a ParseError whose payload carries the first characters of the
\* offending text, at most 200 of them, and so never the whole of a longer
\* text.
C5_ParseErrorExcerptBounded ==
  (Normalised /\ Ended /\ json_kind(response_text) = "error") =>
    /\ outcome.kind = "ParseError"
    /\ Len(outcome.excerpt) <= 200
    /\ Len(outcome.excerpt) <= Len(response_text)
    /\ outcome.excerpt = SubSeq(response_text, 1, Len(outcome.excerpt))
    /\ Len(response_text) > 200 => outcome.excerpt # response_text
    /\ Len(response_text) <= 200 => outcome.excerpt = response_text

\* C5 witness: a response longer than 200 characters failed to parse and the
\* payload carries 200 characters
C5_Witness ==
  /\ Normalised
  /\ Ended
  /\ outcome.kind = "ParseError"
  /\ Len(response_text) > 200
  /\ Len(outcome.excerpt) = 200

\* C6: when the response parses but does not satisfy the schema the request
\* ends in MalformedResponseError with a bounded payload: its size stays
\* within the excerpt length however large the response is.
C6_MalformedPayloadBounded ==
  (deployment = "backend" /\ Ended /\ "validate" \in Range(steps)
     /\ outcome.kind # "ok") =>
    /\ outcome.kind = "MalformedResponseError"
    /\ Len(outcome.excerpt) <= ExcerptLen

\* C6, the part that holds: such a request does end in MalformedResponseError
C6_MalformedIsReported ==
  (deployment = "backend" /\ Ended /\ "validate" \in Range(steps)
     /\ outcome.kind # "ok") =>
    /\ outcome.kind = "MalformedResponseError"
    /\ ~outcome.returned

(***************************************************************************)
(* C7, C8: upstream calls                                                   *)
(***************************************************************************)
\* C7: a request makes at most one upstream call, and every error ends it:
\* once a request has an outcome the handler has stopped, so no second call
\* follows a failure.
C7_SingleUpstreamCall ==
  /\ upstream_calls <= 1
  /\ outcome.kind # "none" => Ended
  /\ (Ended /\ outcome.kind \in {"UpstreamError", "ParseError", "MalformedResponseError"})
       => upstream_calls = 1

\* C7 witness: a request has ended in an upstream failure after its one call
C7_Witness ==
  /\ Ended
  /\ outcome.kind = "UpstreamError"
  /\ upstream_calls = 1
  /\ deployment = "backend"

\* no credential is configured: the variable is unset or empty
NoCredential == GEMINI_API_KEY \in {"None", ""}

\* C8: without a credential a request with a non-empty transcript ends in
\* ConfigurationError and makes no upstream call; the provider is called
\* only with a credential configured and a transcript that is non-empty
\* after trimming.
C8_CredentialGuardsUpstream ==
  deployment = "backend" =>
    /\ (Ended /\ NoCredential /\ ~Blank(transcript)) =>
         (outcome.kind = "ConfigurationError" /\ upstream_calls = 0)
    /\ (InRequest /\ NoCredential) => upstream_calls = 0
    /\ upstream_calls > 0 => (~NoCredential /\ ~Blank(transcript))

\* C8 witness: a request with a non-empty transcript has ended in
\* ConfigurationError, the credential being the empty string
C8_Witness ==
  /\ deployment = "backend"
  /\ Ended
  /\ GEMINI_API_KEY = ""
  /\ ~Blank(transcript)
  /\ outcome.kind = "ConfigurationError"
  /\ upstream_calls = 0


(***************************************************************************)
(* C9, C10: the schema                                                      *)
(***************************************************************************)
Has(obj, fields) == fields \subseteq DOMAIN obj
All(seq, P(_)) == \A i \in 1..Len(seq) : P(seq[i])

\* the data model, entity by entity: every required field present and every
\* enumerated field inside its literal set
IsAcceptanceCriterion(o) ==
  Has(o, {"condition", "test_type"}) /\ o.test_type \in TestTypes

IsBacklogItem(o) ==
  /\ Has(o, {"id", "title", "user_story", "priority", "complexity",
             "definition_of_ready_status", "missing_info", "acceptance_criteria"})
  /\ o.priority \in Priorities
  /\ o.complexity \in Complexities
  /\ o.definition_of_ready_status \in ReadyStatuses
  /\ All(o.acceptance_criteria, IsAcceptanceCriterion)

IsDecisionNote(o) == Has(o, {"topic", "decision_made", "rationale", "owner"})

IsRiskAssumption(o) ==
  /\ Has(o, {"category", "description", "impact", "mitigation_strategy"})
  /\ o.category \in RiskCategories
  /\ o.impact \in Impacts

IsReleaseNoteEntry(o) ==
  Has(o, {"feature_name", "value_statement", "audience"}) /\ o.audience \in Audiences

IsScopeAlert(o) ==
  /\ Has(o, {"severity", "category", "description", "quote", "recommendation",
             "impacted_items"})
  /\ o.severity \in Severities
  /\ o.category \in AlertCategories

IsScopeSentinel(o) ==
  /\ Has(o, {"overall_risk", "summary", "alerts", "metrics"})
  /\ o.overall_risk \in OverallRisks
  /\ All(o.alerts, IsScopeAlert)

IsDocumentationPackage(o) ==
  /\ Has(o, {"meeting_summary", "backlog_items", "decision_log", "risk_register",
             "release_notes_draft", "scope_sentinel"})
  /\ All(o.backlog_items, IsBacklogItem)
  /\ All(o.decision_log, IsDecisionNote)
  /\ All(o.risk_register, IsRiskAssumption)
  /\ All(o.release_notes_draft, IsReleaseNoteEntry)
  /\ IsScopeSentinel(o.scope_sentinel)

\* the backend handler has validated the data of the current request
Validated ==
  deployment = "backend" /\ Ended /\ "validate" \in Range(steps) /\ data_kind = "object"

\* C9: data that misses a required field (scope_sentinel and the fields of
\* nested entities included) or holds a value outside an enumerated field's
\* literal set is rejected and no package is returned; what is returned
\* holds the values the data held, none replaced by an accepted one.
C9_DefectiveDataRejected ==
  /\ (Validated /\ ~IsDocumentationPackage(data)) =>
       /\ ~outcome.returned
       /\ outcome.kind = "MalformedResponseError"
       /\ documentation = EmptyObject
  /\ (Validated /\ outcome.returned) =>
       /\ IsDocumentationPackage(documentation)
       /\ Len(documentation.backlog_items) = Len(data.backlog_items)
       /\ \A i \in 1..Len(data.backlog_items) :
            \A f \in {"priority", "complexity", "definition_of_ready_status"} :
              documentation.backlog_items[i][f] = data.backlog_items[i][f]
       /\ documentation.scope_sentinel = data.scope_sentinel
       /\ documentation.risk_register = data.risk_register
       /\ documentation.release_notes_draft = data.release_notes_draft

\* C9 witness: data whose second backlog item carries a priority outside the
\* literal set has been rejected
C9_Witness ==
  /\ Validated
  /\ Has(data, {"backlog_items", "scope_sentinel"})
  /\ Len(data.backlog_items) = 2
  /\ Has(data.backlog_items[2], {"priority"})
  /\ data.backlog_items[2].priority = "Urgent"
  /\ IsBacklogItem(data.backlog_items[1])
  /\ ~outcome.returned

\* C9, the data without scope_sentinel in particular
C9_MissingSentinelRejected ==
  (Validated /\ ~Has(data, {"scope_sentinel"})) => ~outcome.returned

\* C10: in every package returned, each backlog item has an empty
\* missing_info exactly when its definition_of_ready_status is
\* "Ready for Sprint".
C10_MissingInfoMatchesReadiness ==
  (Ended /\ outcome.returned /\ deployment = "backend") =>
    \A i \in 1..Len(documentation.backlog_items) :
      LET item == documentation.backlog_items[i] IN
        item.missing_info = "" <=> item.definition_of_ready_status = "Ready for Sprint"

\* C10, what the handler does guarantee: the two fields are returned as the
\* response gave them
C10_FieldsReturnedVerbatim ==
  (Ended /\ outcome.returned /\ deployment \in {"backend", "streamlit"}) =>
    /\ Len(documentation.backlog_items) = Len(data.backlog_items)
    /\ \A i \in 1..Len(documentation.backlog_items) :
         /\ documentation.backlog_items[i].missing_info = data.backlog_items[i].missing_info
         /\ documentation.backlog_items[i].definition_of_ready_status
              = data.backlog_items[i].definition_of_ready_status


(***************************************************************************)
(* C11: the order of a request's steps                                      *)
(***************************************************************************)
\* the steps of generate_documentation, in the order the claim gives them
StepOrder == <<"credential", "transcript", "upstream", "fence", "parse", "validate">>
FirstSteps(n) == SubSeq(StepOrder, 1, n)

\* the step at which a request with this outcome stopped
LastStepOf(kind) ==
  CASE kind = "ConfigurationError" -> 1
    [] kind = "EmptyInputError" -> 2
    [] kind = "UpstreamError" -> 3
    [] kind = "ParseError" -> 5
    [] kind \in {"MalformedResponseError", "ok"} -> 6

\* C11: a request takes its steps only in the order credential check,
\* transcript check, upstream call, trim and fence strip, JSON parse, schema
\* validation; it ends in exactly one outcome; a package is returned only
\* when the upstream call succeeded, the text parsed and validation passed;
\* when a step fails no package is returned and no later step runs.
C11_StepsInOrder ==
  (deployment = "backend" /\ InRequest) =>
    /\ Len(steps) <= Len(StepOrder)
    /\ steps = FirstSteps(Len(steps))
    /\ Ended <=> outcome.kind # "none"
    /\ Ended => /\ outcome.kind \in ErrorKinds \cup {"ok"}
                /\ steps = FirstSteps(LastStepOf(outcome.kind))
    /\ outcome.returned <=> outcome.kind = "ok"
    /\ outcome.returned =>
         /\ upstream_calls = 1
         /\ response_text = strip_fence(strip(raw))
         /\ json_kind(response_text) \in {"object", "empty_object"}
         /\ data_kind = "object"
         /\ IsDocumentationPackage(data)
         /\ IsDocumentationPackage(documentation)
    /\ ~outcome.returned => documentation = EmptyObject
    /\ (NoCredential /\ Len(steps) >= 1) =>
         (steps = FirstSteps(1) /\ outcome.kind = "ConfigurationError")
    /\ (~NoCredential /\ Blank(transcript) /\ Len(steps) >= 2) =>
         (steps = FirstSteps(2) /\ outcome.kind = "EmptyInputError")
    /\ (Len(steps) >= 5 /\ json_kind(response_text) = "error") =>
         (steps = FirstSteps(5) /\ outcome.kind = "ParseError")
    /\ (Len(steps) = 6 /\ (data_kind # "object" \/ ~IsDocumentationPackage(data))) =>
         outcome.kind = "MalformedResponseError"
    /\ Len(steps) < 3 => upstream_calls = 0
    /\ Len(steps) < 5 => data_kind = "none"

\* C11 witness: a request has gone through all six steps, fence strip
\* included, and returned a package
C11_Witness ==
  /\ deployment = "backend"
  /\ Ended
  /\ steps = StepOrder
  /\ outcome.returned
  /\ startswith(strip(raw), FENCE)
  /\ IsDocumentationPackage(documentation)

\* C11, the Streamlit handler: the same order without the fence step
C11_StreamlitStepsInOrder ==
  (deployment = "streamlit" /\ InRequest) =>
    LET order == <<"credential", "transcript", "upstream", "parse", "validate">> IN
      /\ Len(steps) <= Len(order)
      /\ steps = SubSeq(order, 1, Len(steps))
      /\ Ended <=> outcome.kind # "none"
      /\ ~outcome.returned => documentation = EmptyObject

=============================================================================
